---------------------------- MODULE Spec2Model ----------------------------
(***************************************************************************)
(* Model of the MQLServer order-management core.                           *)
(*                                                                         *)
(* Two threads run the code: the request path (the FastAPI event loop,     *)
(* which serves one `async def` handler at a time, src/src/api/routes.py)  *)
(* and the scheduler thread (src/src/utils/scheduler.py), which runs the   *)
(* daily reset and the periodic equity check one job at a time.  Each      *)
(* thread is a record holding its position (pc) and the locals of the      *)
(* handler it is running; a step is taken at every access to shared state  *)
(* (the daily counter, its lock, the equity targets, the broker).          *)
(*                                                                         *)
(* Fields of a thread record that the code does not hold (gate, count0,    *)
(* sent, confirmed, confirmed_n, wrote, pre, post, interfered and the      *)
(* fields commented in Idle) are history fields recording what the running *)
(* call has done so far.                                                   *)
(*                                                                         *)
(* Five specifications share the module.  Spec is the daily counter with   *)
(* the operations that touch it (place_order, cancel_pending_orders, the   *)
(* two resets); the equity guard never touches the counter, so there its   *)
(* liquidation is part of the broker's environment.  SpecGuard is the      *)
(* equity guard (set_equity_targets, the periodic check, the liquidation). *)
(* SpecRatchet is make_risk_free.  SpecLive is the equity guard's          *)
(* liquidation under fair scheduling.  SpecSizer applies the lot sizer,    *)
(* _calculate_lot_and_stop_loss, to inputs drawn from bounded sets.        *)
(***************************************************************************)
EXTENDS Integers, FiniteSets, Sequences, TLC

\* ------------------------------------------------------------------ bounds
MaxTickets == 2

MaxPrice == 24

\* The largest |entry_price - stop_loss| handed to the sizer, and the largest
\* value of a pip.
MaxDistance == 5

MaxPipUsd == 3

\* ------------------------------------------------------- program constants
MAX_DAILY_ORDERS == 2
MUST_RISK_AMOUNT == 10

Tickets == 1..MaxTickets

VARIABLES
    successful_orders_count,  \* StateManager.successful_orders_count
    lock,                     \* StateManager.lock: "free" or the holding thread
    serial_count,             \* the count obtained by applying the completed
                              \* mutations one after the other, in lock order
    broker,                   \* broker book: ticket -> "none" | "pending" | "open"
    targets,                  \* EquityCloser.targets
    is_active,                \* EquityCloser.is_active
    req,                      \* the request path
    sched,                    \* the scheduler thread
    position,                 \* the broker's record of one position (ratchet)
    in_memory_risk,           \* StopLossManager.in_memory_risk of the manager
                              \* that served the latest risk_free request
    rf,                       \* the latest risk_free request and its result
    sizer                     \* one call of _calculate_lot_and_stop_loss: its
                              \* inputs and, once it has run, what it handed back

CounterVars == <<successful_orders_count, lock, serial_count, broker, targets,
                 is_active, req, sched>>

RatchetVars == <<position, in_memory_risk, rf, sizer>>

vars == <<CounterVars, RatchetVars>>

Max(a, b) == IF a >= b THEN a ELSE b

MinOf(S) == CHOOSE x \in S : \A y \in S : x <= y

PendingTickets == {t \in Tickets : broker[t] = "pending"}

OpenTickets == {t \in Tickets : broker[t] = "open"}

\* ------------------------------------------------------------ thread record
Idle ==
    [pc |-> "idle", op |-> "none",
     mut |-> "none", arg |-> 0, tmp |-> 0, after |-> "idle",
     todo |-> {}, n |-> 0, closed |-> 0, equity |-> 0,
     p |-> 0, l |-> 0,
     status |-> "none", message |-> "none", ret_count |-> 0, orders_left |-> 0,
     gate |-> 0, count0 |-> 0, sent |-> FALSE, confirmed |-> FALSE,
     confirmed_n |-> 0,
     wrote |-> FALSE, pre |-> 0, post |-> 0, interfered |-> FALSE,
     \* history of an equity check: whether the account answered, the
     \* is_active and the targets it read (-1: not read), the positions whose
     \* close was refused, the positions it closed
     available |-> FALSE, active |-> FALSE, read_p |-> -1, read_l |-> -1,
     \* whether it wrote is_active, the number of positions open at its start
     left |-> {}, shut |-> {}, deactivated |-> FALSE, existed |-> 0,
     \* set_equity_targets: the profit target it is about to replace; a
     \* check: whether it compared against that call's profit and the loss
     \* the call had not yet replaced
     old_p |-> 0, torn |-> FALSE,
     \* liquidation: the position just processed, the filling types sent for
     \* it, the first one the broker was ready to accept; the orders pending
     \* when the orders were looked up, the cancels sent
     last |-> 0, tried |-> <<>>, won |-> "none", pending0 |-> {}, asked |-> <<>>,
     \* place_order: the realized risk the sizer reported (-1: none reported)
     risk |-> -1,
     \* place_order: the intent, the quote and the entry price it worked on
     \* and the order type it inferred ("none": no quote was obtained)
     position_type |-> "none", ask |-> 0, bid |-> 0, entry_price |-> 0,
     order_type |-> "none",
     \* set_equity_targets: whether a liquidation was running when it returned
     during_run |-> FALSE]

\* A handler starts: its locals are fresh.
Begin(op, pc) ==
    [Idle EXCEPT !.op = op, !.pc = pc, !.count0 = successful_orders_count]

\* A handler returning a status/message pair.
Finish(th, donepc, status, message) ==
    [th EXCEPT !.pc = donepc, !.status = status, !.message = message]

\* ------------------------------------------------------------ StateManager
increment_value(c) == c + 1

\* The decrement without its floor.
decrement_unclamped(c, count) == c - count

decrement_value(c, count) == Max(0, c - count)

\* The reset taking one order off the count instead of clearing it.
reset_value_one_off(c) == Max(0, c - 1)

reset_value(c) == 0

Mutate(mut, c, arg) ==
    CASE mut = "inc"   -> increment_value(c)
      [] mut = "dec"   -> decrement_value(c, arg)
      [] mut = "reset" -> reset_value(c)

\* The mutations without their lock.
LockAlwaysAvailable == TRUE

\* `with self.lock:` is entered only when no thread holds the lock.
LockAvailable == lock = "free"

\* A call of increment/decrement/reset_order_count: the thread goes on to
\* the locked read-modify-write and then to `after`.
CallMutation(th, mut, arg, after) ==
    [th EXCEPT !.pc = "sm_read", !.mut = mut, !.arg = arg, !.after = after]

\* First half of a locked mutation: take the lock, read the count.
LockedRead(th, tid) ==
    /\ th.pc = "sm_read"
    /\ LockAvailable
    /\ lock' = tid

\* Second half: store the new count, leave the `with` block.
LockedWrite(th) ==
    /\ th.pc = "sm_write"
    /\ successful_orders_count' = Mutate(th.mut, th.tmp, th.arg)
    /\ serial_count' = Mutate(th.mut, serial_count, th.arg)
    /\ lock' = "free"

AfterRead(th) == [th EXCEPT !.pc = "sm_write", !.tmp = successful_orders_count]

AfterWrite(th) ==
    [th EXCEPT !.pc = th.after, !.tmp = 0, !.wrote = TRUE,
               !.pre = successful_orders_count,
               !.post = successful_orders_count']

\* ----------------------------------------------------------------- broker
\* mt5.order_send answers DONE, another return code, or nothing at all.
Retcodes == {"DONE", "REJECT", "NONE"}

\* A request on a ticket can be DONE only while the ticket is in `state`.
RetcodesFor(t, state) ==
    IF broker[t] = state THEN Retcodes ELSE {"REJECT", "NONE"}

EnvUnchanged == UNCHANGED <<RatchetVars, successful_orders_count, lock, serial_count, targets,
                            is_active, req, sched>>

\* A pending order is filled and becomes an open position.
EnvFill ==
    /\ \E t \in PendingTickets : broker' = [broker EXCEPT ![t] = "open"]
    /\ EnvUnchanged

\* An open position is closed at the broker (stop, target, by hand, or by
\* the equity guard's liquidation).
EnvClose ==
    /\ \E t \in OpenTickets : broker' = [broker EXCEPT ![t] = "none"]
    /\ EnvUnchanged

\* A pending order is removed at the broker by someone else (by hand, or by
\* the equity guard's liquidation).
EnvCancel ==
    /\ \E t \in PendingTickets : broker' = [broker EXCEPT ![t] = "none"]
    /\ EnvUnchanged

\* --------------------------------------------------- OrderManager.place_order
PositionTypes == {"buy", "sell", "buy limit", "sell limit", "buy stop", "sell stop"}

Prices == 1..2

\* price_info as mt5_client.get_current_price returns it: the bid is never
\* above the ask.
PriceInfos ==
    {info \in [ask : Prices, bid : Prices] : info.bid <= info.ask}

\* price_info["ask"] if order.position_type.startswith("buy") else price_info["bid"]
current_price_of(position_type, price_info) ==
    IF position_type \in {"buy", "buy limit", "buy stop"}
    THEN price_info.ask ELSE price_info.bid

\* The inference with limit and stop exchanged for the generic intents.
determine_order_type_exchanged(position_type, current_price, entry_price) ==
    CASE position_type = "buy" ->
            IF current_price > entry_price THEN "BUY_STOP" ELSE "BUY_LIMIT"
      [] position_type = "sell" ->
            IF current_price < entry_price THEN "SELL_STOP" ELSE "SELL_LIMIT"
      [] position_type = "buy limit"  -> "BUY_LIMIT"
      [] position_type = "sell limit" -> "SELL_LIMIT"
      [] position_type = "buy stop"   -> "BUY_STOP"
      [] position_type = "sell stop"  -> "SELL_STOP"
      [] OTHER -> "None"

determine_order_type(position_type, current_price, entry_price) ==
    CASE position_type = "buy" ->
            IF current_price > entry_price THEN "BUY_LIMIT" ELSE "BUY_STOP"
      [] position_type = "sell" ->
            IF current_price < entry_price THEN "SELL_LIMIT" ELSE "SELL_STOP"
      [] position_type = "buy limit"  -> "BUY_LIMIT"
      [] position_type = "sell limit" -> "SELL_LIMIT"
      [] position_type = "buy stop"   -> "BUY_STOP"
      [] position_type = "sell stop"  -> "SELL_STOP"
      [] OTHER -> "None"

\* What _calculate_lot_and_stop_loss hands back: it raises, or it returns a
\* realized risk (here in the unit of MUST_RISK_AMOUNT).
SizerOutcomes ==
    {[raised |-> TRUE, risk |-> 0]} \cup
    {[raised |-> FALSE, risk |-> r] :
        r \in {MUST_RISK_AMOUNT - 3, MUST_RISK_AMOUNT - 2, MUST_RISK_AMOUNT,
               MUST_RISK_AMOUNT + 2, MUST_RISK_AMOUNT + 3}}

\* The upper band test with >= for >.
ExceedsLimitInclusive(risk) == risk * 10 >= MUST_RISK_AMOUNT * 12

\* report_risk_amount > MUST_RISK_AMOUNT * 1.2
ExceedsLimit(risk) == risk * 10 > MUST_RISK_AMOUNT * 12

\* report_risk_amount < MUST_RISK_AMOUNT * 0.8
BelowMinimum(risk) == risk * 10 < MUST_RISK_AMOUNT * 8

\* The steps of place_order between the cap gate and the submission: the
\* message of the step that rejects, "ValueError" when the sizer raises, or
\* "submit".
PrepareOutcome(price_ok, position_type, current_price, entry_price, sizing) ==
    IF ~price_ok
    THEN "Failed to get market price"
    ELSE IF determine_order_type(position_type, current_price, entry_price) = "None"
    THEN "Invalid position type or price settings"
    ELSE IF sizing.raised
    THEN "ValueError"
    ELSE IF ExceedsLimit(sizing.risk)
    THEN "Stop loss amount exceeds risk management limit"
    ELSE IF BelowMinimum(sizing.risk)
    THEN "Risk amount below minimum required limit"
    ELSE "submit"

\* Whether place_order got a realized risk back from the sizer.
SizerReported(price_ok, position_type, current_price, entry_price, sizing) ==
    /\ price_ok
    /\ determine_order_type(position_type, current_price, entry_price) # "None"
    /\ ~sizing.raised

\* One pass through the steps before the submission, for a given intent,
\* quote, entry price and answer of the sizer.
Prepared(price_ok, position_type, price_info, entry_price, sizing) ==
    LET current_price == current_price_of(position_type, price_info) IN
    [message |-> PrepareOutcome(price_ok, position_type, current_price,
                                entry_price, sizing),
     risk    |-> IF SizerReported(price_ok, position_type, current_price,
                                  entry_price, sizing)
                 THEN sizing.risk ELSE -1,
     position_type |-> IF price_ok THEN position_type ELSE "none",
     ask           |-> IF price_ok THEN price_info.ask ELSE 0,
     bid           |-> IF price_ok THEN price_info.bid ELSE 0,
     entry_price   |-> IF price_ok THEN entry_price ELSE 0,
     order_type    |-> IF price_ok
                       THEN determine_order_type(position_type, current_price,
                                                 entry_price)
                       ELSE "none"]

PrepareOutcomes ==
    {Prepared(price_ok, position_type, price_info, entry_price, sizing) :
        price_ok \in BOOLEAN, position_type \in PositionTypes,
        price_info \in PriceInfos, entry_price \in Prices, sizing \in SizerOutcomes}

\* The gate with > for >=, and the gate closing one order early.
CapReachedOffByOne(c) == c > MAX_DAILY_ORDERS

CapReachedEarly(c) == c >= MAX_DAILY_ORDERS - 1

\* successful_orders_count >= MAX_DAILY_ORDERS
CapReached(c) == c >= MAX_DAILY_ORDERS

\* The success test reduced to `if result:`.
SubmitAnswered(retcode) == retcode # "NONE"

\* result and result["status"] == "success"
SubmitSucceeded(retcode) == retcode = "DONE"

ReqUnchanged == UNCHANGED <<RatchetVars, successful_orders_count, lock, serial_count, broker,
                            targets, is_active, sched>>

PlaceOrderCall ==
    /\ req.pc = "idle"
    /\ req' = Begin("place", "po_gate")
    /\ ReqUnchanged

PlaceOrderGate ==
    /\ req.pc = "po_gate"
    /\ req' = IF CapReached(successful_orders_count)
              THEN Finish([req EXCEPT !.gate = successful_orders_count],
                          "po_done", "error", "Maximum daily orders reached")
              ELSE [req EXCEPT !.pc = "po_price", !.gate = successful_orders_count]
    /\ ReqUnchanged

\* Price lookup, order-type inference, sizing and the risk band: none of
\* these touches the counter or sends anything to the broker.
PlaceOrderPrepare ==
    /\ req.pc = "po_price"
    /\ \E outcome \in PrepareOutcomes :
          LET sized == [req EXCEPT !.risk = outcome.risk,
                                   !.position_type = outcome.position_type,
                                   !.ask = outcome.ask, !.bid = outcome.bid,
                                   !.entry_price = outcome.entry_price,
                                   !.order_type = outcome.order_type] IN
          req' = CASE outcome.message = "submit" -> [sized EXCEPT !.pc = "po_submit"]
                   [] outcome.message = "ValueError" ->
                        Finish(sized, "po_done", "exception", outcome.message)
                   [] OTHER -> Finish(sized, "po_done", "error", outcome.message)
    /\ ReqUnchanged

\* mt5_client.place_order(order_request), then the counter on success.
PlaceOrderSubmit ==
    /\ req.pc = "po_submit"
    /\ \E retcode \in Retcodes :
          \* the inferred type has gone into the request: its history ends
          LET answered == [req EXCEPT !.sent = TRUE, !.confirmed = (retcode = "DONE"),
                                      !.position_type = "none", !.ask = 0, !.bid = 0,
                                      !.entry_price = 0, !.order_type = "none"] IN
          /\ \/ /\ retcode = "DONE"
                /\ \E t \in Tickets :
                      /\ broker[t] = "none"
                      /\ broker' = [broker EXCEPT ![t] = "pending"]
             \/ /\ retcode # "DONE"
                /\ broker' = broker
          /\ req' = IF SubmitSucceeded(retcode)
                    THEN CallMutation(answered, "inc", 0, "po_left")
                    ELSE Finish(answered, "po_done", "error", "Order rejected")
    /\ UNCHANGED <<RatchetVars, successful_orders_count, lock, serial_count, targets,
                   is_active, sched>>

\* orders_left = MAX_DAILY_ORDERS - self.state_manager.successful_orders_count
PlaceOrderLeft ==
    /\ req.pc = "po_left"
    /\ req' = Finish([req EXCEPT !.orders_left = MAX_DAILY_ORDERS - successful_orders_count],
                     "po_done", "success", "Order placed successfully")
    /\ ReqUnchanged

\* ------------------------------------------ request path: locked mutations
ReqLockedRead ==
    /\ LockedRead(req, "req")
    /\ req' = AfterRead(req)
    /\ UNCHANGED <<RatchetVars, successful_orders_count, serial_count, broker, targets,
                   is_active, sched>>

ReqLockedWrite ==
    /\ LockedWrite(req)
    /\ req' = AfterWrite(req)
    /\ UNCHANGED <<RatchetVars, broker, targets, is_active, sched>>

\* The route's reset_order_count, src/src/api/routes.py.
ResetCall ==
    /\ req.pc = "idle"
    /\ req' = CallMutation(Begin("reset", "idle"), "reset", 0, "rs_done")
    /\ ReqUnchanged

\* The handler returns; the event loop takes the next request.
ReqReturn ==
    /\ req.pc \in {"po_done", "cp_done", "rs_done", "st_done"}
    /\ req' = Idle
    /\ ReqUnchanged

\* ----------------------------------------- OrderManager.cancel_pending_orders
\* Every answered cancellation counted, whatever its return code.
CountsAnyAnswer(retcode) == TRUE

\* result.retcode == mt5.TRADE_RETCODE_DONE
CountsAsCanceled(retcode) == retcode = "DONE"

CancelCall ==
    /\ req.pc = "idle"
    /\ req' = Begin("cancel", "cp_get")
    /\ ReqUnchanged

\* orders = mt5_client.get_orders(): the pending orders, or [] when the
\* broker's lookup yields nothing.
CancelGetOrders ==
    /\ req.pc = "cp_get"
    /\ \E orders \in {PendingTickets, {}} :
          req' = IF orders = {}
                 THEN Finish(req, "cp_done", "success", "No pending orders to cancel")
                 ELSE [req EXCEPT !.pc = "cp_loop", !.todo = orders, !.n = 0]
    /\ ReqUnchanged

\* One turn of `for order in orders`.  A missing answer makes result.retcode
\* raise; the `except Exception` of the method turns that into an error
\* result with canceled_count 0, and the orders not yet reached stay in todo.
CancelLoop ==
    /\ req.pc = "cp_loop"
    /\ req.todo # {}
    /\ LET t == MinOf(req.todo) IN
       \E retcode \in RetcodesFor(t, "pending") :
          LET seen == [req EXCEPT !.todo = @ \ {t},
                                  !.confirmed_n = IF retcode = "DONE" THEN @ + 1 ELSE @]
          IN
          /\ broker' = IF retcode = "DONE" THEN [broker EXCEPT ![t] = "none"] ELSE broker
          /\ req' = IF retcode = "NONE"
                    THEN Finish([seen EXCEPT !.ret_count = 0], "cp_done", "error",
                                "Failed to cancel pending orders")
                    ELSE [seen EXCEPT !.n = IF CountsAsCanceled(retcode) THEN @ + 1 ELSE @,
                                      !.pc = IF seen.todo = {} THEN "cp_after" ELSE "cp_loop"]
    /\ UNCHANGED <<RatchetVars, successful_orders_count, lock, serial_count, targets,
                   is_active, sched>>

\* if canceled_count > 0: self.state_manager.decrement_order_count(canceled_count)
CancelAfter ==
    /\ req.pc = "cp_after"
    /\ req' = IF req.n > 0
              THEN CallMutation(req, "dec", req.n, "cp_return")
              ELSE Finish([req EXCEPT !.ret_count = req.n], "cp_done", "success",
                          "Canceled pending orders")
    /\ ReqUnchanged

CancelReturn ==
    /\ req.pc = "cp_return"
    /\ req' = Finish([req EXCEPT !.ret_count = req.n], "cp_done", "success",
                     "Canceled pending orders")
    /\ ReqUnchanged

\* ------------------------------------------- scheduler thread: daily reset
SchedUnchanged == UNCHANGED <<RatchetVars, successful_orders_count, lock, serial_count, broker,
                              targets, is_active, req>>

\* schedule.every().day.at(RESET_ORDER_TIME).do(state_manager.reset_order_count)
SchedResetJob ==
    /\ sched.pc = "idle"
    /\ sched' = CallMutation(Begin("reset", "idle"), "reset", 0, "job_done")
    /\ SchedUnchanged

SchedLockedRead ==
    /\ LockedRead(sched, "sched")
    /\ sched' = AfterRead(sched)
    /\ UNCHANGED <<RatchetVars, successful_orders_count, serial_count, broker, targets,
                   is_active, req>>

\* A write of the scheduler thread during a request is recorded on the request.
SchedLockedWrite ==
    /\ LockedWrite(sched)
    /\ sched' = AfterWrite(sched)
    /\ req' = IF req.pc = "idle" THEN req ELSE [req EXCEPT !.interfered = TRUE]
    /\ UNCHANGED <<RatchetVars, broker, targets, is_active>>

\* The job is over; run_pending goes back to sleep.
SchedReturn ==
    /\ sched.pc \in {"job_done", "lq_done"}
    /\ sched' = Idle
    /\ SchedUnchanged

\* ------------------------------------------- StopLossManager.make_risk_free
\* Prices are whole numbers of pips; 0 is the broker's "no stop".  The lowest
\* price is more than five pips, as every quoted price is.
RatchetPrices == 6..MaxPrice

Abs(x) == IF x >= 0 THEN x ELSE -x

\* A long position stays open while the price is above its stop, a short
\* one while the price is below it.
StaysOpen(type, sl, price_current) ==
    \/ sl = 0
    \/ type = "BUY" /\ price_current > sl
    \/ type = "SELL" /\ price_current < sl

\* The stop-loss manager of a route that has not run, and no position read.
NoRequest ==
    [pc |-> "none", ticket_id |-> 0, found |-> FALSE,
     before |-> [ticket |-> 0, type |-> "BUY", price_open |-> 0, sl |-> 0,
                 price_current |-> 0, tp |-> 0, open |-> FALSE],
     status |-> "none", message |-> "none", new_stop_loss |-> 0,
     sent |-> FALSE, written |-> FALSE,
     \* history: the ledger the serving manager started with, the pip value
     \* the call used, whether an earlier call for the ticket succeeded
     ledger0 |-> <<>>, pip_value |-> 0, first |-> FALSE, protected |-> FALSE]

\* No sizer call is being followed.
NoSizing == [pc |-> "none"]

RatchetIdle ==
    /\ position = NoRequest.before
    /\ in_memory_risk = <<>>
    /\ rf = NoRequest
    /\ sizer = NoSizing

\* get_pip_value(position.symbol): one pip, or 0.0 without symbol info.
get_pip_value(info_ok) == IF info_ok THEN 1 ELSE 0

\* The ledger after `if ticket_id not in self.in_memory_risk:`, or "error"
\* when the method returns there ("Position is not in profit").
NotInProfit(pos) ==
    /\ pos.sl = 0
    /\ ~(pos.type = "BUY" /\ pos.price_current > pos.price_open)
    /\ ~(pos.type = "SELL" /\ pos.price_current < pos.price_open)

\* stop_loss after the block: entry_price when the position had no stop.
StopForRisk(pos) == IF pos.sl = 0 THEN pos.price_open ELSE pos.sl

\* self.in_memory_risk[ticket_id] = abs(entry_price - stop_loss)
StoreInitialRisk(ledger, pos) ==
    IF pos.ticket \in DOMAIN ledger
    THEN ledger
    ELSE [t \in DOMAIN ledger \cup {pos.ticket} |->
            IF t = pos.ticket THEN Abs(pos.price_open - StopForRisk(pos))
            ELSE ledger[t]]

\* The stop the method would compute if the short side tested the threshold
\* as the long side does (`>=` for `<=`).
NewStopLossShortAsLong(pos, stop_loss, risk_amount, pip_value) ==
    LET new_stop_loss == IF pos.type = "BUY"
                         THEN IF stop_loss >= pos.price_open
                              THEN stop_loss + risk_amount ELSE pos.price_open
                         ELSE IF stop_loss <= pos.price_open
                              THEN stop_loss - risk_amount ELSE pos.price_open
        safe_threshold == IF pos.type = "BUY"
                          THEN pos.price_current - pip_value * 5
                          ELSE pos.price_current + pip_value * 5
    IN  IF new_stop_loss >= safe_threshold THEN safe_threshold ELSE new_stop_loss

\* The stop the method computes (lines 45-70).
NewStopLoss(pos, stop_loss, risk_amount, pip_value) ==
    IF pos.type = "BUY"
    THEN LET new_stop_loss == IF stop_loss >= pos.price_open
                              THEN stop_loss + risk_amount
                              ELSE pos.price_open
             safe_threshold == pos.price_current - pip_value * 5
         IN  IF new_stop_loss >= safe_threshold THEN safe_threshold ELSE new_stop_loss
    ELSE LET new_stop_loss == IF stop_loss <= pos.price_open
                              THEN stop_loss - risk_amount
                              ELSE pos.price_open
             safe_threshold == pos.price_current + pip_value * 5
         IN  IF new_stop_loss <= safe_threshold THEN safe_threshold ELSE new_stop_loss

\* StopLossManager(): self.in_memory_risk = {}
StopLossManager == <<>>

\* The route risk_free(ticket_id): a new StopLossManager, then make_risk_free.
RiskFree ==
    \E ticket_id \in 1..2, lookup_ok \in BOOLEAN, info_ok \in BOOLEAN,
       modified \in BOOLEAN :
       LET manager  == StopLossManager
           found    == lookup_ok /\ position.open /\ position.ticket = ticket_id
           call     == [NoRequest EXCEPT !.pc = "done", !.ticket_id = ticket_id,
                                         !.found = found,
                                         !.before = IF found THEN position ELSE @,
                                         !.ledger0 = manager,
                                         !.first = ~rf.protected,
                                         !.protected = rf.protected]
           ledger   == StoreInitialRisk(manager, position)
           new_stop == NewStopLoss(position, StopForRisk(position), ledger[ticket_id],
                                   get_pip_value(info_ok))
       IN
       /\ position.ticket # 0
       /\ UNCHANGED <<CounterVars, sizer>>
       /\ IF ~found
          THEN /\ rf' = [call EXCEPT !.status = "error", !.message = "Position not found"]
               /\ in_memory_risk' = manager
               /\ position' = position
          ELSE IF ticket_id \notin DOMAIN manager /\ NotInProfit(position)
          THEN /\ rf' = [call EXCEPT !.status = "error",
                                     !.message = "Position is not in profit"]
               /\ in_memory_risk' = manager
               /\ position' = position
          ELSE IF modified
          THEN /\ rf' = [call EXCEPT !.status = "success",
                                     !.message = "Stop loss updated successfully",
                                     !.new_stop_loss = new_stop,
                                     !.pip_value = get_pip_value(info_ok),
                                     !.protected = TRUE,
                                     !.sent = TRUE, !.written = TRUE]
               /\ in_memory_risk' = ledger
               /\ position' = [position EXCEPT !.sl = new_stop]
          ELSE /\ rf' = [call EXCEPT !.status = "error",
                                     !.message = "Failed to update stop loss",
                                     !.pip_value = get_pip_value(info_ok),
                                     !.sent = TRUE]
               /\ in_memory_risk' = ledger
               /\ position' = position

\* The market moves; the position stays open.
EnvPrice ==
    /\ position.open
    /\ \E price \in RatchetPrices :
          /\ price # position.price_current
          /\ StaysOpen(position.type, position.sl, price)
          /\ position' = [position EXCEPT !.price_current = price]
    /\ UNCHANGED <<CounterVars, in_memory_risk, rf, sizer>>

\* The position is closed at the broker.
EnvPositionClosed ==
    /\ position.open
    /\ position' = [position EXCEPT !.open = FALSE]
    /\ UNCHANGED <<CounterVars, in_memory_risk, rf, sizer>>

\* ------------------------------------------------- specification: the ratchet
\* One open position, as the broker may hold it: long or short, with or
\* without a stop, at any price at which it is still open.
InitRatchet ==
    /\ successful_orders_count = 0
    /\ lock = "free"
    /\ serial_count = 0
    /\ broker = [t \in Tickets |-> "none"]
    /\ targets = [profit |-> 0, loss |-> 0]
    /\ is_active = FALSE
    /\ req = Idle
    /\ sched = Idle
    /\ in_memory_risk = <<>>
    /\ rf = NoRequest
    /\ sizer = NoSizing
    /\ \E type \in {"BUY", "SELL"}, price_open \in {14, 15},
          sl \in {0} \cup 11..18, price_current \in RatchetPrices,
          tp \in {0, 1} :
          /\ StaysOpen(type, sl, price_current)
          /\ position = [ticket |-> 1, type |-> type, price_open |-> price_open,
                         sl |-> sl, price_current |-> price_current,
                         tp |-> IF tp = 0 THEN 0
                                ELSE IF type = "BUY" THEN MaxPrice + 10 ELSE 1,
                         open |-> TRUE]

NextRatchet == RiskFree \/ EnvPrice \/ EnvPositionClosed

SpecRatchet == InitRatchet /\ [][NextRatchet]_vars

\* ------------------------------------------------ specification: the counter
Init ==
    /\ successful_orders_count = 0
    /\ lock = "free"
    /\ serial_count = 0
    /\ broker = [t \in Tickets |-> "none"]
    /\ targets = [profit |-> 0, loss |-> 0]
    /\ is_active = FALSE
    /\ req = Idle
    /\ sched = Idle
    /\ RatchetIdle

Next ==
    \/ PlaceOrderCall \/ PlaceOrderGate \/ PlaceOrderPrepare \/ PlaceOrderSubmit
    \/ PlaceOrderLeft
    \/ CancelCall \/ CancelGetOrders \/ CancelLoop \/ CancelAfter \/ CancelReturn
    \/ ResetCall \/ ReqLockedRead \/ ReqLockedWrite \/ ReqReturn
    \/ SchedResetJob \/ SchedLockedRead \/ SchedLockedWrite \/ SchedReturn
    \/ EnvFill \/ EnvClose \/ EnvCancel

Spec == Init /\ [][Next]_vars

\* ------------------------------------------- EquityCloser.set_equity_targets
TargetVals == 1..3

EquityVals == 1..3

\* No validation at all.
TargetsRejectedNever(profit_equity, loss_equity) == FALSE

\* The validation with `<` for `<=`: equal targets accepted.
TargetsRejectedStrict(profit_equity, loss_equity) == profit_equity < loss_equity

\* if profit_equity <= loss_equity: return {"status": "error", ...}
TargetsRejected(profit_equity, loss_equity) == profit_equity <= loss_equity

SetTargetsCall ==
    /\ req.pc = "idle"
    /\ \E profit_equity \in TargetVals, loss_equity \in TargetVals :
          LET call == [Begin("targets", "st_profit") EXCEPT
                          !.p = profit_equity, !.l = loss_equity,
                          !.old_p = targets.profit]
          IN  req' = IF TargetsRejected(profit_equity, loss_equity)
                     THEN Finish(call, "st_done", "error",
                                 "Profit equity must be greater than loss equity")
                     ELSE call
    /\ ReqUnchanged

\* self.targets["profit"] = profit_equity
SetTargetsProfit ==
    /\ req.pc = "st_profit"
    /\ targets' = [targets EXCEPT !.profit = req.p]
    /\ req' = [req EXCEPT !.pc = "st_loss"]
    /\ UNCHANGED <<RatchetVars, successful_orders_count, lock, serial_count, broker, is_active, sched>>

\* self.targets["loss"] = loss_equity
SetTargetsLoss ==
    /\ req.pc = "st_loss"
    /\ targets' = [targets EXCEPT !.loss = req.l]
    /\ req' = [req EXCEPT !.pc = "st_active", !.old_p = 0]
    /\ UNCHANGED <<RatchetVars, successful_orders_count, lock, serial_count, broker, is_active, sched>>

\* The scheduler thread is inside close_all_positions_and_orders.
LiquidationInFlight ==
    /\ sched.op = "check"
    /\ sched.pc \in {"lq_positions", "lq_close", "lq_closed", "lq_orders",
                     "lq_cancel", "lq_return"}

\* self.is_active = True
SetTargetsActive ==
    /\ req.pc = "st_active"
    /\ is_active' = TRUE
    /\ req' = Finish([req EXCEPT !.during_run = LiquidationInFlight],
                     "st_done", "success", "Equity targets set successfully")
    /\ sched' = IF sched.pc = "idle" THEN sched ELSE [sched EXCEPT !.interfered = TRUE]
    /\ UNCHANGED <<RatchetVars, successful_orders_count, lock, serial_count, broker, targets>>

\* ------------------------------------ EquityCloser.check_and_close_positions
\* schedule.every(2).seconds.do(_equity_closer.check_and_close_positions)
CheckJob ==
    /\ sched.pc = "idle"
    /\ sched' = Begin("check", "ck_account")
    /\ SchedUnchanged

\* account_info = mt5.account_info(); current_equity = account_info.equity
CheckAccount ==
    /\ sched.pc = "ck_account"
    /\ \E available \in BOOLEAN, equity \in EquityVals :
          sched' = IF ~available
                   THEN Finish(sched, "job_done", "error", "Failed to retrieve account info")
                   ELSE [sched EXCEPT !.pc = "ck_active", !.equity = equity,
                                      !.available = TRUE]
    /\ SchedUnchanged

\* The check going on whether monitoring is active or not.
SkipsCheckNever(active) == FALSE

\* if not self.is_active
SkipsCheck(active) == ~active

\* if not self.is_active: return None
CheckActive ==
    /\ sched.pc = "ck_active"
    /\ sched' = IF SkipsCheck(is_active)
                THEN Finish(sched, "job_done", "none", "not active")
                ELSE [sched EXCEPT !.pc = "ck_profit", !.active = TRUE]
    /\ SchedUnchanged

\* current_equity >= self.targets["profit"]
ProfitHit(current_equity, profit) == current_equity >= profit

\* The loss comparison with `<` for `<=`: the bound itself not a breach.
LossHitStrict(current_equity, loss) == current_equity < loss

\* current_equity <= self.targets["loss"]
LossHit(current_equity, loss) == current_equity <= loss

\* current_equity >= self.targets["profit"] or ...
CheckProfit ==
    /\ sched.pc = "ck_profit"
    /\ sched' = [sched EXCEPT !.read_p = targets.profit,
                              !.pc = IF ProfitHit(sched.equity, targets.profit)
                                     THEN "lq_positions" ELSE "ck_loss"]
    /\ SchedUnchanged

\* The pair (profit the check read, loss it reads now) is the profit a
\* set_equity_targets in flight has written with the loss it has yet to
\* replace, and is neither the pair before that call nor its new pair.
HalfApplied(profit_read) ==
    /\ req.op = "targets" /\ req.pc = "st_loss"
    /\ profit_read = req.p /\ req.p # req.old_p
    /\ targets.loss # req.l

\* ... or current_equity <= self.targets["loss"]
CheckLoss ==
    /\ sched.pc = "ck_loss"
    /\ LET read == [sched EXCEPT !.read_l = targets.loss,
                                 !.torn = HalfApplied(sched.read_p)]
       IN  sched' = IF LossHit(sched.equity, targets.loss)
                    THEN [read EXCEPT !.pc = "lq_positions"]
                    ELSE Finish(read, "job_done", "none", "Equity targets not met")
    /\ SchedUnchanged

\* _close_all_positions: positions = mt5_client.get_positions(), which is []
\* when the broker's lookup yields nothing.
ClosePositionsGet ==
    /\ sched.pc = "lq_positions"
    /\ \E positions \in {OpenTickets, {}} :
          /\ sched' = IF positions = {}
                      THEN [sched EXCEPT !.pc = "lq_orders", !.status = "success",
                                         !.message = "No open positions to close",
                                         !.closed = 0, !.deactivated = TRUE,
                                         !.read_p = -1, !.read_l = -1, !.torn = FALSE,
                                         !.existed = Cardinality(OpenTickets)]
                      ELSE [sched EXCEPT !.pc = "lq_close", !.todo = positions,
                                         !.closed = 0,
                                         !.read_p = -1, !.read_l = -1, !.torn = FALSE,
                                         !.existed = Cardinality(OpenTickets)]
          /\ is_active' = IF positions = {} THEN FALSE ELSE is_active
    /\ UNCHANGED <<RatchetVars, successful_orders_count, lock, serial_count, broker, targets, req>>

\* What one turn of `for position in positions` comes to: the price and the
\* symbol info are looked up, then the close is sent with IOC, FOK and RETURN
\* until one is accepted (1, 2, 3; 0: none was).
\* filling_types = [mt5.ORDER_FILLING_IOC, mt5.ORDER_FILLING_FOK, mt5.ORDER_FILLING_RETURN]
filling_types == <<"IOC", "FOK", "RETURN">>

\* The broker's answers to the close of position t, one per filling type;
\* a position that is no longer open cannot be closed.
CloseAnswers(t) ==
    IF broker[t] = "open"
    THEN [{"IOC", "FOK", "RETURN"} -> BOOLEAN]
    ELSE {[f \in {"IOC", "FOK", "RETURN"} |-> FALSE]}

\* The first filling type the broker accepts, "none" when it accepts none.
FirstAccepted(accepts) ==
    IF accepts["IOC"] THEN "IOC"
    ELSE IF accepts["FOK"] THEN "FOK"
    ELSE IF accepts["RETURN"] THEN "RETURN" ELSE "none"

\* The loop without its `break`: every filling type is sent.
SendAll(types, accepts) == types

\* for filling_type in filling_types: ... if success: break
\* The requests sent, in order.
RECURSIVE SendUntilAccepted(_, _)
SendUntilAccepted(types, accepts) ==
    IF types = <<>> THEN <<>>
    ELSE IF accepts[Head(types)] THEN <<Head(types)>>
    ELSE <<Head(types)>> \o SendUntilAccepted(Tail(types), accepts)

\* closed_count += 1 for every request the broker accepted.
AcceptedCount(tried, accepts) ==
    Cardinality({i \in 1..Len(tried) : accepts[tried[i]]})

\* What one turn of `for position in positions` comes to: without the price
\* or the symbol info nothing is sent (`continue`).
CloseOutcomes(t) ==
    {LET tried == IF price_ok /\ info_ok
                  THEN SendUntilAccepted(filling_types, accepts) ELSE <<>>
     IN  [tried  |-> tried,
          count  |-> AcceptedCount(tried, accepts),
          won    |-> IF tried = <<>> THEN "none" ELSE FirstAccepted(accepts)] :
        price_ok \in BOOLEAN, info_ok \in BOOLEAN, accepts \in CloseAnswers(t)}

ClosePositionLoop ==
    /\ sched.pc = "lq_close"
    /\ sched.todo # {}
    /\ LET t == MinOf(sched.todo) IN
       \E o \in CloseOutcomes(t) :
          /\ broker' = IF o.count > 0 THEN [broker EXCEPT ![t] = "none"] ELSE broker
          /\ sched' = [sched EXCEPT !.todo = @ \ {t},
                                    !.closed = @ + o.count,
                                    !.sent = @ \/ o.tried # <<>>,
                                    !.shut = IF o.count > 0 THEN @ \cup {t} ELSE @,
                                    !.left = IF o.tried # <<>> /\ o.count = 0
                                             THEN @ \cup {t} ELSE @,
                                    !.last = t, !.tried = o.tried, !.won = o.won,
                                    !.pc = IF sched.todo = {t} THEN "lq_closed" ELSE "lq_close"]
    /\ UNCHANGED <<RatchetVars, successful_orders_count, lock, serial_count, targets, is_active, req>>

\* if closed_count > 0: self.is_active = False
ClosePositionsEnd ==
    /\ sched.pc = "lq_closed"
    /\ is_active' = IF sched.closed > 0 THEN FALSE ELSE is_active
    /\ sched' = IF sched.closed > 0
                THEN [sched EXCEPT !.pc = "lq_orders", !.status = "success",
                                   !.deactivated = TRUE,
                                   !.last = 0, !.tried = <<>>, !.won = "none",
                                   !.message = "Closed positions due to equity target"]
                ELSE [sched EXCEPT !.pc = "lq_orders", !.status = "error",
                                   !.last = 0, !.tried = <<>>, !.won = "none",
                                   !.message = "Failed to close positions"]
    /\ UNCHANGED <<RatchetVars, successful_orders_count, lock, serial_count, broker, targets, req>>

\* close_all_positions_and_orders: orders = mt5_client.get_orders()
LiquidationGetOrders ==
    /\ sched.pc = "lq_orders"
    /\ \E orders \in {PendingTickets, {}} :
          sched' = [sched EXCEPT !.todo = orders, !.n = 0,
                                 !.pending0 = PendingTickets,
                                 !.pc = IF orders = {} THEN "lq_return" ELSE "lq_cancel"]
    /\ SchedUnchanged

\* One turn of `for order in orders`:
\* if result and result.retcode == mt5.TRADE_RETCODE_DONE: canceled_count += 1
LiquidationCancelLoop ==
    /\ sched.pc = "lq_cancel"
    /\ sched.todo # {}
    /\ LET t == MinOf(sched.todo) IN
       \E retcode \in RetcodesFor(t, "pending") :
          /\ broker' = IF retcode = "DONE" THEN [broker EXCEPT ![t] = "none"] ELSE broker
          /\ sched' = [sched EXCEPT !.todo = @ \ {t},
                                    !.confirmed_n = IF retcode = "DONE" THEN @ + 1 ELSE @,
                                    !.n = IF retcode = "DONE" THEN @ + 1 ELSE @,
                                    !.sent = TRUE,
                                    !.asked = Append(@, t),
                                    !.pc = IF sched.todo = {t} THEN "lq_return" ELSE "lq_cancel"]
    /\ UNCHANGED <<RatchetVars, successful_orders_count, lock, serial_count, targets, is_active, req>>

\* result_positions["canceled_orders"] = canceled_count; return result_positions
LiquidationReturn ==
    /\ sched.pc = "lq_return"
    /\ sched' = [sched EXCEPT !.pc = "lq_done", !.ret_count = sched.n]
    /\ SchedUnchanged

\* --------------------------------------------- specification: the equity guard
\* The guard starts with any book at the broker; one order has been counted
\* today.
InitGuard ==
    /\ successful_orders_count = 1
    /\ serial_count = successful_orders_count
    /\ lock = "free"
    /\ broker \in [Tickets -> {"none", "pending", "open"}]
    /\ targets = [profit |-> 0, loss |-> 0]
    /\ is_active = FALSE
    /\ req = Idle
    /\ sched = Idle
    /\ RatchetIdle

NextGuard ==
    \/ SetTargetsCall \/ SetTargetsProfit \/ SetTargetsLoss \/ SetTargetsActive
    \/ ReqReturn
    \/ CheckJob \/ CheckAccount \/ CheckActive \/ CheckProfit \/ CheckLoss
    \/ ClosePositionsGet \/ ClosePositionLoop \/ ClosePositionsEnd
    \/ LiquidationGetOrders \/ LiquidationCancelLoop \/ LiquidationReturn
    \/ SchedReturn
    \/ EnvFill \/ EnvClose

SpecGuard == InitGuard /\ [][NextGuard]_vars

\* ------------------------------ specification: liquidation under fair ticks
\* Monitoring is armed, as after set_equity_targets(3, 1); the book holds any
\* positions and pending orders; no order is placed and none is filled.  Only
\* the periodic check runs, and the broker answers its position lookups.
InitLive ==
    /\ successful_orders_count = 0
    /\ serial_count = 0
    /\ lock = "free"
    /\ broker \in [Tickets -> {"none", "pending", "open"}]
    /\ targets = [profit |-> 3, loss |-> 1]
    /\ is_active = TRUE
    /\ req = Idle
    /\ sched = Idle
    /\ RatchetIdle

\* Every equity the account reports is at or beyond a target.
EquityBreached ==
    sched.available => (sched.equity >= targets.profit \/ sched.equity <= targets.loss)

\* The check reads the account while equity stays breached.
CheckAccountBreached == CheckAccount /\ EquityBreached'

\* The liquidation looks the positions up and the broker answers.
ClosePositionsGetAnswered ==
    ClosePositionsGet /\ (OpenTickets # {} => sched'.pc = "lq_close")

NextLive ==
    \/ CheckJob \/ CheckAccountBreached \/ CheckActive \/ CheckProfit \/ CheckLoss
    \/ ClosePositionsGetAnswered \/ ClosePositionLoop \/ ClosePositionsEnd
    \/ LiquidationGetOrders \/ LiquidationCancelLoop \/ LiquidationReturn
    \/ SchedReturn

\* run_scheduler calls run_pending every second, so the check keeps being
\* run and each of its steps is taken; the account answers again and again,
\* and a close that is tried again and again is accepted.
FairLive ==
    /\ WF_vars(NextLive)
    /\ SF_vars(CheckAccountBreached /\ sched'.available)
    /\ \A t \in Tickets :
          SF_vars(ClosePositionLoop /\ broker[t] = "open" /\ broker'[t] = "none")

SpecLive == InitLive /\ [][NextLive]_vars /\ FairLive

\* ------------------------------ OrderManager._calculate_lot_and_stop_loss
\* Units.  A distance between two prices is counted in two-hundredths of a
\* pip, a lot in halves of a thousandth of a lot, a risk in the unit of
\* MUST_RISK_AMOUNT.  pip_usd is the risk, in that unit, of one hundredth of
\* a pip on the smallest lot: the symbol's pip value times the notional
\* constant of its class times, where a conversion is needed, the quoted rate.

\* Decimal('0.01') pips, in the unit of distances.
PipQuantum == 2

\* Decimal('0.001') lots, in the unit of lots.
LotQuantum == 2

\* The fallbacks volume_step 0.01, volume_min 0.01, volume_max 100.
DefaultVolumeStep == 20

DefaultVolumeMin == 20

DefaultVolumeMax == 200000

Min(a, b) == IF a <= b THEN a ELSE b

\* .quantize(q, rounding=ROUND_DOWN) of a non-negative amount
quantize(x, q) == (x \div q) * q

\* The symbols by the branch of the pip-value conversion they take: quoted in
\* USD (BTCUSD, XAUUSD, XAGUSD, EURUSD ...), based on USD, or neither.
SymbolClasses == {"XXXUSD", "USDXXX", "CROSS"}

\* What mt5.symbol_info reports for a symbol: step, minimum and maximum are
\* multiples of a thousandth of a lot, minimum and maximum multiples of the
\* step.
VolumeInfos ==
    {[volume_step |-> s, volume_min |-> k * s, volume_max |-> m * s] :
        s \in {LotQuantum, 2 * LotQuantum}, k \in 1..2, m \in {2, 8}}

\* One call: the symbol, whether symbol_info answers inside get_pip_value
\* and again before the rounding, whether quoteUSD and USDquote are quoted,
\* |entry_price - stop_loss| (never 0), the pip's value and the volumes.
SizerInputs ==
    [symbol : SymbolClasses, info_pip : BOOLEAN, info_volume : BOOLEAN,
     quote_usd : BOOLEAN, usd_quote : BOOLEAN,
     distance : 1..MaxDistance, pip_usd : 1..MaxPipUsd, volume : VolumeInfos]

\* The sizer left through an exception.
SizerRaised(exception) ==
    [raised |-> exception, lot |-> 0, risk |-> 0,
     lot_size_lower |-> 0, lot_size_upper |-> 0, risk_lower |-> 0, risk_upper |-> 0,
     volume_step |-> 0, volume_min |-> 0, volume_max |-> 0]

\* pip_value_usd: USD-quoted symbols need no quote; USDxxx needs USDxxx
\* quoted; a cross needs quoteUSD or, failing that, USDquote.
ConversionQuoted(in) ==
    CASE in.symbol = "XXXUSD" -> TRUE
      [] in.symbol = "USDXXX" -> in.usd_quote
      [] in.symbol = "CROSS"  -> in.quote_usd \/ in.usd_quote

\* symbol_info's volumes, or the fallbacks when it does not answer.
VolumeLimits(in) ==
    IF in.info_volume THEN in.volume
    ELSE [volume_step |-> DefaultVolumeStep, volume_min |-> DefaultVolumeMin,
          volume_max |-> DefaultVolumeMax]

\* The selection with < for <=: the upper candidate on ties.
PrefersLowerStrict(risk_lower, risk_upper, max_loss_usd) ==
    Abs(risk_lower - max_loss_usd) < Abs(risk_upper - max_loss_usd)

\* abs(risk_lower - max_loss_usd) <= abs(risk_upper - max_loss_usd)
PrefersLower(risk_lower, risk_upper, max_loss_usd) ==
    Abs(risk_lower - max_loss_usd) <= Abs(risk_upper - max_loss_usd)

\* The rounding and the selection, for a risk per lot that is not zero.
RoundAndSelect(risk_per_lot, max_loss_usd, limits) ==
    LET volume_step == limits.volume_step
        \* max(floor(lot_size / volume_step) * volume_step, volume_min)
        lower0 == Max((max_loss_usd \div (risk_per_lot * volume_step)) * volume_step,
                      limits.volume_min)
        lot_size_lower == quantize(lower0, LotQuantum)
        lot_size_upper == Min(quantize(lower0 + volume_step, LotQuantum),
                              limits.volume_max)
        risk_lower == risk_per_lot * lot_size_lower
        risk_upper == risk_per_lot * lot_size_upper
        lower == PrefersLower(risk_lower, risk_upper, max_loss_usd)
    IN  [raised |-> "none",
         lot  |-> IF lower THEN lot_size_lower ELSE lot_size_upper,
         risk |-> IF lower THEN risk_lower ELSE risk_upper,
         lot_size_lower |-> lot_size_lower, lot_size_upper |-> lot_size_upper,
         risk_lower |-> risk_lower, risk_upper |-> risk_upper,
         volume_step |-> volume_step, volume_min |-> limits.volume_min,
         volume_max |-> limits.volume_max]

calculate_lot_and_stop_loss(in, max_loss_usd) ==
    LET pip_value == get_pip_value(in.info_pip) IN
    IF pip_value = 0
    THEN SizerRaised("DivisionByZero")
    ELSE LET pip_difference == quantize(in.distance \div pip_value, PipQuantum)
                                   \div PipQuantum
             risk_per_lot   == pip_difference * in.pip_usd
         IN  IF ~ConversionQuoted(in)
             THEN SizerRaised("ValueError")
             ELSE IF risk_per_lot = 0
             THEN SizerRaised("DivisionByZero")
             ELSE RoundAndSelect(risk_per_lot, max_loss_usd, VolumeLimits(in))

\* ------------------------------------------------ specification: the sizer
\* place_order hands the sizer MUST_RISK_AMOUNT as max_loss_usd.
InitSizer ==
    /\ successful_orders_count = 0
    /\ serial_count = 0
    /\ lock = "free"
    /\ broker = [t \in Tickets |-> "none"]
    /\ targets = [profit |-> 0, loss |-> 0]
    /\ is_active = FALSE
    /\ req = Idle
    /\ sched = Idle
    /\ position = NoRequest.before
    /\ in_memory_risk = <<>>
    /\ rf = NoRequest
    /\ \E in \in SizerInputs : sizer = [pc |-> "called", in |-> in]

SizerRun ==
    /\ sizer.pc = "called"
    /\ sizer' = [pc |-> "returned", in |-> sizer.in,
                 out |-> calculate_lot_and_stop_loss(sizer.in, MUST_RISK_AMOUNT)]
    /\ UNCHANGED <<CounterVars, position, in_memory_risk, rf>>

NextSizer == SizerRun

SpecSizer == InitSizer /\ [][NextSizer]_vars

\* ------------------------------------------------------- claims: the counter
PlaceDone == req.op = "place" /\ req.pc = "po_done"

CancelDone == req.op = "cancel" /\ req.pc = "cp_done"

\* The rejections of place_order that come before the order is submitted.
PreSubmitRejections ==
    {"Maximum daily orders reached", "Failed to get market price",
     "Invalid position type or price settings", "ValueError",
     "Stop loss amount exceeds risk management limit",
     "Risk amount below minimum required limit"}

\* C1: in every reachable state, whatever the interleaving of place_order,
\* cancel_pending_orders and the resets of both threads (the cap check and
\* the increment of place_order being separate steps), the daily count lies
\* in 0..MAX_DAILY_ORDERS.
C1_CountWithinCap ==
    /\ successful_orders_count >= 0
    /\ successful_orders_count <= MAX_DAILY_ORDERS

\* C1 witness: a confirmed placement whose increment came after a reset of
\* the scheduler thread that ran between its cap check and its increment.
C1_Witness ==
    /\ PlaceDone /\ req.confirmed /\ req.wrote /\ req.interfered
    /\ req.gate = MAX_DAILY_ORDERS - 1 /\ req.pre = 0

\* C2: a place_order that reads count = MAX_DAILY_ORDERS at the gate is
\* refused with 'Maximum daily orders reached', submits nothing and writes
\* nothing to the count; one that reads MAX_DAILY_ORDERS - 1 passes the gate
\* and, when the broker confirms and no reset of the scheduler thread runs
\* during the call, ends in success with count = MAX_DAILY_ORDERS.
C2_CapBoundary ==
    PlaceDone =>
        /\ req.gate = MAX_DAILY_ORDERS =>
              /\ req.status = "error"
              /\ req.message = "Maximum daily orders reached"
              /\ ~req.sent /\ ~req.wrote
        /\ req.gate = MAX_DAILY_ORDERS - 1 =>
              /\ req.message # "Maximum daily orders reached"
              /\ (req.confirmed /\ ~req.interfered) =>
                    /\ req.status = "success"
                    /\ successful_orders_count = MAX_DAILY_ORDERS

\* C2 witness: a placement accepted at count = MAX_DAILY_ORDERS - 1.
C2_Witness ==
    /\ PlaceDone /\ req.gate = MAX_DAILY_ORDERS - 1 /\ req.status = "success"
    /\ ~req.interfered /\ successful_orders_count = MAX_DAILY_ORDERS

\* C3: place_order writes the count if and only if the broker confirmed the
\* submission, and then raises it by exactly one; a call that does not end
\* in success has written nothing, and a call rejected before the submit
\* step has sent nothing to the broker.
C3_IncrementIffConfirmed ==
    req.op = "place" =>
        /\ req.wrote => (req.confirmed /\ req.post = req.pre + 1)
        /\ req.pc = "po_done" =>
              /\ req.confirmed => req.wrote
              /\ req.status # "success" => ~req.wrote
              /\ req.message \in PreSubmitRejections =>
                    (~req.sent /\ ~req.wrote /\ req.status # "success")

\* C3 witness: a confirmed placement that raised the count from 1 to 2.
C3_Witness ==
    PlaceDone /\ req.confirmed /\ req.wrote /\ req.pre = 1 /\ req.post = 2

\* C4: the daily count is never negative; decrement_order_count(n) leaves 0
\* when n exceeds the count and count - n otherwise.
C4_NeverNegative ==
    /\ successful_orders_count >= 0
    /\ (req.wrote /\ req.mut = "dec") =>
          req.post = IF req.arg > req.pre THEN 0 ELSE req.pre - req.arg

\* C4 witness: a decrement by more than the count, which left 0.
C4_Witness ==
    req.wrote /\ req.mut = "dec" /\ req.arg > req.pre /\ req.post = 0

\* C5: increment, decrement and reset exclude one another: the two threads
\* are never both inside a mutation, the lock is held exactly while one is,
\* and the count always equals the result of applying the completed
\* mutations one at a time in the order they took the lock (none is lost).
C5_Serializable ==
    /\ successful_orders_count = serial_count
    /\ ~(req.pc = "sm_write" /\ sched.pc = "sm_write")
    /\ (lock = "req") = (req.pc = "sm_write")
    /\ (lock = "sched") = (sched.pc = "sm_write")

\* C5 witness: the scheduler's reset waits for the lock while the request
\* path is inside an increment.
C5_Witness ==
    /\ req.pc = "sm_write" /\ req.mut = "inc"
    /\ sched.pc = "sm_read" /\ lock = "req"

\* C6: cancel_pending_orders lowers the count by exactly the number of
\* cancellations the broker confirmed in the call (floored at zero) and
\* returns that number as canceled_count.
C6_CancelLowersByConfirmed ==
    CancelDone =>
        /\ req.ret_count = req.confirmed_n
        /\ req.confirmed_n > 0 =>
              (req.wrote /\ req.post = Max(0, req.pre - req.confirmed_n))
        /\ req.confirmed_n = 0 => ~req.wrote

\* C7: a failed cancellation (a return code other than DONE, or no answer)
\* never keeps cancel_pending_orders from attempting the remaining orders,
\* and the call returns success with canceled_count the number cancelled.
C7_FailureDoesNotStopBatch ==
    CancelDone =>
        /\ req.todo = {}
        /\ req.status = "success"
        /\ req.ret_count = req.confirmed_n

\* C8: a cancel_pending_orders in which no cancellation succeeds (there is
\* no pending order, or none is confirmed) returns canceled_count 0 and
\* does not write the count.
C8_NothingCanceled ==
    (req.op = "cancel" /\ req.confirmed_n = 0) =>
        /\ ~req.wrote
        /\ req.pc = "cp_done" => req.ret_count = 0

\* C8 witness: the call returns with no pending order at the broker while
\* the count is positive.
C8_Witness ==
    /\ CancelDone /\ req.message = "No pending orders to cancel"
    /\ PendingTickets = {} /\ req.confirmed_n = 0
    /\ successful_orders_count > 0 /\ req.count0 = successful_orders_count

\* A call that had `th.confirmed_n` cancellations confirmed has lowered the
\* count by that number, floored at zero (a count that was and is zero needs
\* no write).
LoweredByCancelled(th) ==
    th.confirmed_n > 0 =>
        \/ th.wrote /\ th.post = Max(0, th.pre - th.confirmed_n)
        \/ ~th.wrote /\ th.count0 = 0 /\ successful_orders_count = 0

\* C9: whenever this system cancels pending orders, in cancel_pending_orders
\* or in the equity guard's liquidation, the count is lowered by the number
\* cancelled, floored at zero.
C9_EveryCancelDecrements ==
    /\ CancelDone => LoweredByCancelled(req)
    /\ (sched.op = "check" /\ sched.pc = "lq_done") => LoweredByCancelled(sched)

\* ------------------------------------------------------- claims: the ratchet
\* The latest risk_free request found its position not in profit: a long
\* at or below its entry price, a short at or above it.
ServedNotInProfit ==
    /\ rf.pc = "done" /\ rf.found
    /\ \/ rf.before.type = "BUY" /\ rf.before.price_current <= rf.before.price_open
       \/ rf.before.type = "SELL" /\ rf.before.price_current >= rf.before.price_open

\* C10: make_risk_free on an open position with no ledger entry that is not
\* in profit fails with an error, creates no ledger entry and writes no stop
\* to the broker, whether the position's stop is zero or not.
C10_NotInProfitFails ==
    ServedNotInProfit =>
        /\ rf.status = "error"
        /\ rf.ticket_id \notin DOMAIN in_memory_risk
        /\ ~rf.written

\* The latest risk_free request succeeded.
ServedSuccess == rf.pc = "done" /\ rf.status = "success"

\* A position in profit whose stop is not yet at or beyond its entry price.
Unprotected(pos) ==
    \/ /\ pos.type = "BUY" /\ pos.price_current > pos.price_open
       /\ pos.sl < pos.price_open
    \/ /\ pos.type = "SELL" /\ pos.price_current < pos.price_open
       /\ (pos.sl = 0 \/ pos.sl > pos.price_open)

\* C11: for a profitable long, the second of two successive successful
\* make_risk_free calls on a ticket writes (the stop after the first call +
\* the risk distance the first call recorded), unless that is at or above
\* current_price - 5 * pip_value, in which case it writes exactly that
\* threshold.
C11_SecondCallAdvancesByRisk ==
    [][(/\ ServedSuccess
        /\ rf' # rf /\ rf'.status = "success" /\ rf'.ticket_id = rf.ticket_id
        /\ position.type = "BUY" /\ position.price_current > position.price_open)
       => LET advanced  == position.sl + in_memory_risk[rf.ticket_id]
              threshold == position.price_current - 5 * rf'.pip_value
          IN  rf'.new_stop_loss = IF advanced >= threshold THEN threshold
                                  ELSE advanced]_vars

\* C12: the first successful make_risk_free for a ticket writes the entry
\* price as the stop, and the ledger records |entry - stop before the call|,
\* 0 when the position had no stop.
C12_FirstCallPinsToEntry ==
    (ServedSuccess /\ rf.first /\ Unprotected(rf.before)) =>
        /\ rf.new_stop_loss = rf.before.price_open
        /\ rf.ticket_id \in DOMAIN in_memory_risk
        /\ in_memory_risk[rf.ticket_id] =
              IF rf.before.sl = 0 THEN 0
              ELSE Abs(rf.before.price_open - rf.before.sl)

\* C13: every stop a successful make_risk_free writes keeps five pips from
\* the current price: at most current_price - 5 * pip_value for a long, at
\* least current_price + 5 * pip_value for a short.
C13_KeepsSafetyBuffer ==
    ServedSuccess =>
        /\ rf.before.type = "BUY" =>
              rf.new_stop_loss <= rf.before.price_current - 5 * rf.pip_value
        /\ rf.before.type = "SELL" =>
              rf.new_stop_loss >= rf.before.price_current + 5 * rf.pip_value

\* A short whose advance by the recorded risk would have come within five
\* pips of the price was given the threshold instead.
C13_Witness ==
    /\ ServedSuccess /\ rf.before.type = "SELL" /\ rf.pip_value = 1
    /\ rf.before.sl # 0 /\ rf.before.sl <= rf.before.price_open
    /\ rf.before.sl - in_memory_risk[rf.ticket_id] < rf.before.price_current + 5
    /\ rf.new_stop_loss = rf.before.price_current + 5
    /\ position.sl = rf.new_stop_loss

\* C14: when the broker rejects the stop modification the call returns an
\* error and the ledger is what it was before the call.
C14_RejectedWriteKeepsLedger ==
    (rf.pc = "done" /\ rf.sent /\ ~rf.written) =>
        /\ rf.status = "error"
        /\ in_memory_risk = rf.ledger0

\* C15: the ledger is one process-wide mapping: an entry recorded for a
\* ticket is there, with the same value, for the manager that serves the
\* next risk_free request for that ticket, and that request leaves it as it
\* is.
C15_LedgerPersists ==
    [][(/\ rf' # rf /\ rf'.pc = "done"
        /\ rf'.ticket_id \in DOMAIN in_memory_risk)
       => /\ rf'.ticket_id \in DOMAIN rf'.ledger0
          /\ rf'.ledger0[rf'.ticket_id] = in_memory_risk[rf'.ticket_id]
          /\ rf'.ticket_id \in DOMAIN in_memory_risk'
          /\ in_memory_risk'[rf'.ticket_id] = in_memory_risk[rf'.ticket_id]]_vars

\* ---------------------------------------------------- claims: the equity guard
SetTargetsDone == req.op = "targets" /\ req.pc = "st_done"

\* C16: set_equity_targets(profit, loss) with profit <= loss, equal values
\* included, returns an error and writes neither target nor is_active; with
\* profit > loss it stores both values and sets is_active.
C16_TargetsValidated ==
    [][/\ (req.pc = "idle" /\ req'.op = "targets") =>
             /\ (req'.p <= req'.l) <=> (req'.pc = "st_done" /\ req'.status = "error")
             /\ (req'.p <= req'.l) => (targets' = targets /\ is_active' = is_active)
       /\ (req.pc = "st_active" /\ req'.pc = "st_done") =>
             /\ req'.status = "success"
             /\ targets' = [profit |-> req.p, loss |-> req.l]
             /\ is_active']_vars

\* Equal targets were refused while earlier targets were in force, which
\* are still stored.
C16_Witness ==
    /\ SetTargetsDone /\ req.status = "error" /\ req.p = req.l
    /\ is_active /\ targets.profit > targets.loss /\ targets.profit # req.p

\* The check has decided: it is about to liquidate, or it has returned.
CheckDecided == sched.op = "check" /\ sched.pc \in {"lq_positions", "job_done"}

\* What the check read breaches a target.
ReadBreach ==
    /\ sched.available /\ sched.active
    /\ \/ sched.equity >= sched.read_p
       \/ sched.read_l # -1 /\ sched.equity <= sched.read_l

\* C17: check_and_close_positions starts liquidation exactly when it found
\* the account, read is_active as true and read equity >= the profit target
\* or equity <= the loss target; otherwise it returns having sent no close
\* or cancel request and written neither is_active nor the targets.
C17_LiquidatesIffBreached ==
    CheckDecided =>
        /\ (sched.pc = "lq_positions") <=> ReadBreach
        /\ sched.pc = "job_done" => (~sched.sent /\ ~sched.deactivated)

\* Equity exactly at the loss target started a liquidation.
C17_Witness ==
    /\ CheckDecided /\ sched.pc = "lq_positions"
    /\ sched.equity < sched.read_p /\ sched.equity = sched.read_l

LiquidationDone == sched.op = "check" /\ sched.pc = "lq_done"

\* C18: after a liquidation run during which no set_equity_targets wrote,
\* is_active is false if the run closed a position or no position was open
\* at its start, and still true if positions were open and none was closed.
C18_DeactivatesWhenClosedOrNone ==
    (LiquidationDone /\ ~sched.interfered) =>
        /\ (sched.closed > 0 \/ sched.existed = 0) => ~is_active
        /\ (sched.existed > 0 /\ sched.closed = 0) => is_active

\* C19: a liquidation run that closed some positions and left one open for
\* which every filling strategy was refused reports the number it closed
\* and leaves is_active true.
C19_PartialClosureStaysActive ==
    (/\ LiquidationDone /\ ~sched.interfered
     /\ sched.closed > 0 /\ sched.left \cap OpenTickets # {}) =>
        /\ sched.closed = Cardinality(sched.shut)
        /\ is_active

\* C20: once a check has found monitoring active and a target breached, then
\* with the check run again and again, equity staying breached and every
\* close that keeps being tried accepted in the end, no position stays open.
C20_LiquidationCompletes ==
    (sched.op = "check" /\ sched.pc = "lq_positions") ~> (OpenTickets = {})

\* C21: a check running while set_equity_targets runs never compares equity
\* against a half-applied update: the new profit target with the loss target
\* the call has not yet replaced.
C21_NoHalfAppliedTargets == CheckDecided => ~sched.torn

\* No set_equity_targets is between its first write and its return.
TargetsSettled == req.op # "targets" \/ req.pc \in {"idle", "st_done"}

\* C22: the guard starts with both targets 0 and inactive, and whenever no
\* set_equity_targets is in flight, is_active implies profit target > loss
\* target.
C22_ActiveImpliesOrdered ==
    /\ targets = [profit |-> 0, loss |-> 0] /\ ~is_active
    /\ []((TargetsSettled /\ is_active) => targets.profit > targets.loss)

\* Monitoring was switched off by a liquidation and on again by a later
\* set_equity_targets, which has returned.
C22_Witness ==
    /\ is_active /\ req.pc = "idle" /\ targets.profit > targets.loss
    /\ LiquidationDone /\ sched.deactivated /\ sched.interfered

\* The liquidation has just processed a position.
PositionProcessed ==
    sched.op = "check" /\ sched.pc \in {"lq_close", "lq_closed"} /\ sched.last # 0

\* C23: each position is attempted with IOC, FOK, RETURN in that order; the
\* first success ends the attempts (the position is counted once and nothing
\* more is sent for it); when all three fail the position is left open and
\* the loop goes on with the next position.
C23_FirstSuccessWins ==
    PositionProcessed =>
        LET t == sched.last
            n == Len(sched.tried)
        IN  /\ sched.tried = SubSeq(filling_types, 1, n)
            /\ t \in sched.shut =>
                  /\ sched.tried[n] = sched.won
                  /\ \A i \in 1..(n - 1) : sched.tried[i] # sched.won
                  /\ sched.closed = Cardinality(sched.shut)
                  /\ t \notin sched.todo
            /\ (t \notin sched.shut /\ n > 0) =>
                  /\ n = 3 /\ sched.won = "none"
                  /\ t \in sched.left
            /\ sched.pc = IF sched.todo = {} THEN "lq_closed" ELSE "lq_close"

\* After a position for which all three were refused, the next one was
\* closed by its second request.
C23_Witness ==
    /\ PositionProcessed /\ sched.left # {}
    /\ sched.last \in sched.shut /\ sched.tried = <<"IOC", "FOK">>
    /\ sched.closed = 1

\* C24: in every liquidation run each pending order is sent exactly one
\* cancel, and canceled_orders is the number of confirmed cancels, whatever
\* happened to the positions.
C24_EveryOrderCancelledOnce ==
    LiquidationDone =>
        /\ \A t \in sched.pending0 :
              Cardinality({i \in 1..Len(sched.asked) : sched.asked[i] = t}) = 1
        /\ sched.ret_count = sched.confirmed_n


\* A place_order call has returned after the sizer reported a realized risk.
SizedPlaceDone == req.op = "place" /\ req.pc = "po_done" /\ req.risk # -1

\* 0.8 * MUST_RISK_AMOUNT <= r <= 1.2 * MUST_RISK_AMOUNT
WithinBand(r) == MUST_RISK_AMOUNT * 8 <= r * 10 /\ r * 10 <= MUST_RISK_AMOUNT * 12

\* C25: place_order submits an order exactly when the sizer's realized risk r
\* satisfies 0.8*T <= r <= 1.2*T (both ends included); r > 1.2*T is rejected
\* as exceeding the limit and r < 0.8*T as below the minimum, and a rejected
\* call sends nothing to the broker and leaves the daily counter alone.
C25_RiskBandGate ==
    /\ (req.op = "place" /\ req.sent) => WithinBand(req.risk)
    /\ SizedPlaceDone =>
          /\ req.sent <=> WithinBand(req.risk)
          /\ req.risk * 10 > MUST_RISK_AMOUNT * 12 =>
                /\ req.status = "error"
                /\ req.message = "Stop loss amount exceeds risk management limit"
          /\ req.risk * 10 < MUST_RISK_AMOUNT * 8 =>
                /\ req.status = "error"
                /\ req.message = "Risk amount below minimum required limit"
          /\ ~WithinBand(req.risk) => ~req.wrote

\* A call whose realized risk sits exactly on the upper end of the band was
\* submitted.
C25_Witness ==
    /\ SizedPlaceDone
    /\ req.risk * 10 = MUST_RISK_AMOUNT * 12
    /\ req.sent


\* --------------------------------------------------------- claims: the sizer
SizerReturned == sizer.pc = "returned" /\ sizer.out.raised = "none"

\* C26: for every entry, stop (entry # stop) and target risk, the sizer either
\* returns a lot whose realized risk is within 20% of the target risk or
\* fails with the conversion-unavailable error; it never returns a lot whose
\* realized risk is outside that band.
C26_SizedWithinBandOrUnavailable ==
    sizer.pc = "returned" =>
        \/ sizer.out.raised = "none" /\ WithinBand(sizer.out.risk)
        \/ sizer.out.raised = "ValueError"

\* C27: the lot the sizer returns is a whole multiple of the lot step and
\* lies between the lot minimum and the lot maximum, also when the unrounded
\* candidate is below the minimum or above the maximum.
C27_LotOnStepWithinLimits ==
    SizerReturned =>
        /\ sizer.out.lot % sizer.out.volume_step = 0
        /\ sizer.out.volume_min <= sizer.out.lot
        /\ sizer.out.lot <= sizer.out.volume_max

\* C28: of the lower and the upper candidate the sizer returns the one whose
\* realized risk is nearer to the target risk, and the lower one when both
\* are equally near.
C28_NearerCandidateLowerOnTies ==
    SizerReturned =>
        LET below == Abs(sizer.out.risk_lower - MUST_RISK_AMOUNT)
            above == Abs(sizer.out.risk_upper - MUST_RISK_AMOUNT)
        IN  /\ below <= above =>
                  /\ sizer.out.lot = sizer.out.lot_size_lower
                  /\ sizer.out.risk = sizer.out.risk_lower
            /\ below > above =>
                  /\ sizer.out.lot = sizer.out.lot_size_upper
                  /\ sizer.out.risk = sizer.out.risk_upper

\* Two different candidates equally near the target: the lower was returned.
C28_Witness ==
    /\ SizerReturned
    /\ sizer.out.lot_size_lower < sizer.out.lot_size_upper
    /\ MUST_RISK_AMOUNT - sizer.out.risk_lower = sizer.out.risk_upper - MUST_RISK_AMOUNT
    /\ sizer.out.lot = sizer.out.lot_size_lower

\* C29: when the symbol's metadata is unavailable (and the conversion pair
\* is quoted) the sizer does not fail: it returns a lot, rounded with the
\* defaults step 0.01, minimum 0.01, maximum 100.
C29_DefaultsWhenMetadataMissing ==
    (/\ sizer.pc = "returned"
     /\ ~sizer.in.info_pip /\ ~sizer.in.info_volume
     /\ ConversionQuoted(sizer.in))
    => /\ sizer.out.raised = "none"
       /\ sizer.out.volume_step = DefaultVolumeStep
       /\ sizer.out.volume_min = DefaultVolumeMin
       /\ sizer.out.volume_max = DefaultVolumeMax

\* C30: every failure of place_order, a sizing failure for an unquoted
\* conversion pair included, comes back as a result with status error and a
\* message, never as an exception; the call has not changed the daily count
\* and has left no order at the broker.
C30_FailuresAreStructured ==
    (PlaceDone /\ req.status # "success")
    => /\ req.status = "error"
       /\ req.message # "none"
       /\ ~req.wrote
       /\ ~req.confirmed


\* ------------------------------------------- claims: order-type inference
\* place_order has inferred an order type from a quote.
TypeInferred == req.op = "place" /\ req.order_type # "none"

\* C31: a generic buy with its entry below the current ask becomes a buy
\* limit and with its entry above the ask a buy stop; a generic sell with its
\* entry above the current bid becomes a sell limit and with its entry below
\* the bid a sell stop; an explicit limit or stop intent becomes exactly that
\* order type whatever the quote.
C31_OrderTypeInference ==
    TypeInferred =>
        /\ (req.position_type = "buy" /\ req.entry_price < req.ask)
              => req.order_type = "BUY_LIMIT"
        /\ (req.position_type = "buy" /\ req.entry_price > req.ask)
              => req.order_type = "BUY_STOP"
        /\ (req.position_type = "sell" /\ req.entry_price > req.bid)
              => req.order_type = "SELL_LIMIT"
        /\ (req.position_type = "sell" /\ req.entry_price < req.bid)
              => req.order_type = "SELL_STOP"
        /\ req.position_type = "buy limit"  => req.order_type = "BUY_LIMIT"
        /\ req.position_type = "sell limit" => req.order_type = "SELL_LIMIT"
        /\ req.position_type = "buy stop"   => req.order_type = "BUY_STOP"
        /\ req.position_type = "sell stop"  => req.order_type = "SELL_STOP"

\* A generic buy entered below the ask, at the bid, is about to go out as a
\* buy limit.
C31_Witness ==
    /\ req.op = "place" /\ req.pc = "po_submit"
    /\ req.position_type = "buy"
    /\ req.entry_price < req.ask /\ req.entry_price = req.bid
    /\ req.order_type = "BUY_LIMIT"


\* ------------------------------------------------------- claims: the reset
\* The step in which a reset_order_count stores the count.
ResetWrites(th) == th.pc = "sm_write" /\ th.mut = "reset"

\* C32: reset_order_count sets the daily count to 0 from any count, a count
\* at or above the cap included, and changes neither the risk ledger nor the
\* equity targets nor is_active; after a reset the count stays 0 until a
\* placement is counted, so the first place_order after a reset reads 0 at
\* the daily-cap gate and is not refused by it.
C32_ResetClearsCount ==
    /\ [][(\/ ResetWrites(req) /\ req'.pc # "sm_write"
           \/ ResetWrites(sched) /\ sched'.pc # "sm_write")
          => /\ successful_orders_count' = 0
             /\ UNCHANGED <<in_memory_risk, targets, is_active>>]_vars
    /\ [][(successful_orders_count = 0 /\ successful_orders_count' # 0)
          => (req.op = "place" /\ req.pc = "sm_write" /\ req.mut = "inc")]_vars
    /\ [][(/\ req.op = "place" /\ req.pc = "po_gate" /\ req'.pc # "po_gate"
           /\ successful_orders_count = 0)
          => req'.pc = "po_price"]_vars

\* The scheduler's reset found the count at the cap, and the place_order that
\* then read 0 at the gate went on to the price lookup.
C32_Witness ==
    /\ sched.op = "reset" /\ sched.pc = "job_done"
    /\ sched.pre >= MAX_DAILY_ORDERS /\ sched.post = 0
    /\ req.op = "place" /\ req.pc = "po_price" /\ req.gate = 0


\* ------------------------------------------------- claims: orders left
\* C33: a successful place_order reports an orders-left value equal to
\* MAX_DAILY_ORDERS minus the count that includes this order (the count its
\* own increment stored), and that value is never negative, under any
\* interleaving with other placements, cancellations and resets.
C33_OrdersLeftCountsThisOrder ==
    (PlaceDone /\ req.status = "success")
    => /\ req.orders_left = MAX_DAILY_ORDERS - req.post
       /\ req.orders_left >= 0


\* ------------------------------------------- claims: the ratchet's direction
\* C34: the ratchet is monotone: every successful make_risk_free on a long
\* writes a stop at or above the stop the position had before the call, and
\* on a short that had a stop a stop at or below it, at every current price
\* at which the position is still open.
C34_RatchetMonotone ==
    ServedSuccess =>
        /\ rf.before.type = "BUY" => rf.new_stop_loss >= rf.before.sl
        /\ (rf.before.type = "SELL" /\ rf.before.sl # 0)
              => rf.new_stop_loss <= rf.before.sl

\* C35: after a successful make_risk_free the position cannot lose relative
\* to its entry: the stop written is at or above the entry price for a long
\* and at or below it for a short.
C35_StopBeyondEntry ==
    ServedSuccess =>
        /\ rf.before.type = "BUY" => rf.new_stop_loss >= rf.before.price_open
        /\ rf.before.type = "SELL" => rf.new_stop_loss <= rf.before.price_open


\* ------------------------------------- claims: the guard and its liquidation
\* C36: a set_equity_targets that returns success while a liquidation started
\* by an earlier check is still running is not lost: once both have finished,
\* monitoring is active with the targets that call set.
C36_SetDuringLiquidationKept ==
    (/\ LiquidationDone /\ sched.interfered
     /\ req.op = "targets" /\ req.pc = "st_done" /\ req.status = "success"
     /\ req.during_run)
    => /\ is_active
       /\ targets = [profit |-> req.p, loss |-> req.l]


\* C37: once a liquidation run has set is_active to false, no later periodic
\* check sends a close or a cancel request, whatever the equity, until a
\* set_equity_targets succeeds again: is_active becomes true only in the last
\* step of a successful set_equity_targets, a check that reads it false
\* returns at once having sent nothing, and every check that is in or past
\* the liquidation, where all requests are sent, had read it true.
C37_InactiveSendsNothing ==
    /\ [][(~is_active /\ is_active')
          => (/\ req.op = "targets" /\ req.pc = "st_active"
              /\ req'.pc = "st_done" /\ req'.status = "success")]_vars
    /\ [][(sched.pc = "ck_active" /\ sched'.pc # "ck_active" /\ ~is_active)
          => (/\ sched'.pc = "job_done" /\ ~sched'.sent
              /\ sched'.tried = <<>> /\ sched'.asked = <<>>
              /\ broker' = broker)]_vars
    /\ []((sched.op = "check" /\ (LiquidationInFlight \/ LiquidationDone))
          => sched.active)

\* Targets were set and a liquidation has since deactivated the guard; a
\* later check found the equity at or above the profit target and returned
\* without a request.
C37_Witness ==
    /\ targets.profit > targets.loss /\ ~is_active
    /\ sched.op = "check" /\ sched.pc = "job_done" /\ sched.message = "not active"
    /\ sched.available /\ sched.equity >= targets.profit
    /\ ~sched.sent /\ OpenTickets # {}


\* The run's position lookup yielded no list while positions were open.
LookupFailed ==
    /\ sched.existed > 0
    /\ sched.message = "No open positions to close"

\* C38: if the broker's position lookup fails during a liquidation run while
\* positions are open, monitoring is not deactivated: is_active is still true
\* when the run ends, so that the next tick retries.
C38_FailedLookupStaysActive ==
    (LiquidationDone /\ LookupFailed) => is_active

====
